---------------------------- MODULE Spec2Model ----------------------------
(***************************************************************************)
(* CurveAnimator (src/src/curve-animator.js): Catmull-Rom spline           *)
(* animation with an arc-length table, and its play / pause / resume /     *)
(* reset / update state machine.                                           *)
(*                                                                         *)
(* JavaScript numbers are modelled as exact extended rationals: a record   *)
(* [n, d] with d > 0 in lowest terms is the number n/d, [0,0] is NaN,      *)
(* [1,0] is +Infinity and [-1,0] is -Infinity.  Floating-point rounding is *)
(* not modelled.  Control points lie on the x axis, so a Vector3 is        *)
(* represented by its x coordinate and distanceTo is |dx|.                 *)
(***************************************************************************)
EXTENDS Integers, Sequences, FiniteSets, TLC

(***************************************************************************)
(* Bounds of the model.                                                    *)
(***************************************************************************)
\* update(dt) is called with dt = k/2 seconds, k in 0..MaxDt
MaxDt == 4
\* the consumer sets animator.speed to a whole number in 0..MaxSpeed
MaxSpeed == 3
\* getPoint(t) is queried with t = k/4, k in -2..MaxQueryT
MaxQueryT == 6
\* getParameterForDistance(d) is queried with d = k/2, k in -1..MaxQueryD
MaxQueryD == 7
\* the queried animators are built with arcLengthSegments in 1..MaxSegments
MaxSegments == 5
\* the longest roll of the golf ball, in frames
MaxRoll == 2
\* the most strokes played on one loaded course
MaxStrokes == 2
\* the most entries the scorecard takes
MaxEntries == 4

(***************************************************************************)
(* JavaScript number arithmetic.                                           *)
(***************************************************************************)
Abs(x) == IF x < 0 THEN -x ELSE x

Sign(x) == IF x < 0 THEN -1 ELSE IF x > 0 THEN 1 ELSE 0

RECURSIVE GCD(_, _)
GCD(a, b) == IF b = 0 THEN a ELSE GCD(b, a % b)

\* the number n/d (d any integer) in canonical form
Norm(n, d) ==
    IF d = 0 THEN [n |-> Sign(n), d |-> 0]
    ELSE LET g == GCD(Abs(n), Abs(d))
             s == Sign(d)
         IN [n |-> (s * n) \div g, d |-> (s * d) \div g]

R(k) == [n |-> k, d |-> 1]
Zero == R(0)
One == R(1)
NaN == [n |-> 0, d |-> 0]

IsNaN(a) == a.d = 0 /\ a.n = 0
IsFinite(a) == a.d > 0
IsInf(a) == a.d = 0 /\ a.n # 0

RNeg(a) == [n |-> -a.n, d |-> a.d]

RAdd(a, b) ==
    IF IsInf(a) /\ IsInf(b)
    THEN (IF a.n = b.n THEN a ELSE NaN)
    ELSE Norm(a.n * b.d + b.n * a.d, a.d * b.d)

RSub(a, b) == RAdd(a, RNeg(b))

RMul(a, b) == Norm(a.n * b.n, a.d * b.d)

RDiv(a, b) ==
    IF IsNaN(a) \/ IsNaN(b) THEN NaN
    ELSE IF IsInf(b) THEN (IF IsInf(a) THEN NaN ELSE Zero)
    ELSE IF IsInf(a) THEN [n |-> a.n * (IF b.n < 0 THEN -1 ELSE 1), d |-> 0]
    ELSE Norm(a.n * b.d, a.d * b.n)

\* a < b, a <= b, a >= b: every comparison with NaN is false
RLt(a, b) ==
    /\ ~IsNaN(a) /\ ~IsNaN(b)
    /\ IF IsInf(a) /\ IsInf(b) THEN a.n < b.n
       ELSE IF IsInf(a) THEN a.n < 0
       ELSE IF IsInf(b) THEN b.n > 0
       ELSE a.n * b.d < b.n * a.d

RLe(a, b) == ~IsNaN(a) /\ ~IsNaN(b) /\ (a = b \/ RLt(a, b))

RGe(a, b) == RLe(b, a)

\* Math.min, Math.max: NaN if either argument is NaN
RMin(a, b) == IF IsNaN(a) \/ IsNaN(b) THEN NaN ELSE IF RLt(b, a) THEN b ELSE a

RMax(a, b) == IF IsNaN(a) \/ IsNaN(b) THEN NaN ELSE IF RLt(a, b) THEN b ELSE a

\* Math.floor
RFloor(a) == IF IsFinite(a) THEN R(a.n \div a.d) ELSE a

\* the integer part of a finite number, rounded toward zero
Trunc(a) == Sign(a.n) * (Abs(a.n) \div a.d)

\* the % operator: the remainder has the sign of the dividend
RMod(a, b) ==
    IF ~IsFinite(a) \/ IsNaN(b) \/ b = Zero THEN NaN
    ELSE IF IsInf(b) THEN a
    ELSE RSub(a, RMul(b, R(Trunc(RDiv(a, b)))))

RAbs(a) == [n |-> Abs(a.n), d |-> a.d]

(***************************************************************************)
(* The spline: catmullRom and getPoint.                                    *)
(***************************************************************************)
\* a blend whose cubic coefficient has +3 p2 for -3 p2
catmullRomWrongCubic(p0, p1, p2, p3, t) ==
    LET t2 == RMul(t, t)
        t3 == RMul(t2, t)
        c1 == RAdd(RNeg(p0), p2)
        c2 == RSub(RAdd(RSub(RMul(R(2), p0), RMul(R(5), p1)), RMul(R(4), p2)), p3)
        c3 == RAdd(RAdd(RAdd(RNeg(p0), RMul(R(3), p1)), RMul(R(3), p2)), p3)
    IN RMul(Norm(1, 2),
            RAdd(RAdd(RAdd(RMul(R(2), p1), RMul(c1, t)), RMul(c2, t2)), RMul(c3, t3)))

\* one coordinate of the Catmull-Rom blend of four points at parameter t
catmullRom(p0, p1, p2, p3, t) ==
    LET t2 == RMul(t, t)
        t3 == RMul(t2, t)
        c1 == RAdd(RNeg(p0), p2)
        c2 == RSub(RAdd(RSub(RMul(R(2), p0), RMul(R(5), p1)), RMul(R(4), p2)), p3)
        c3 == RAdd(RSub(RAdd(RNeg(p0), RMul(R(3), p1)), RMul(R(3), p2)), p3)
    IN RMul(Norm(1, 2),
            RAdd(RAdd(RAdd(RMul(R(2), p1), RMul(c1, t)), RMul(c2, t2)), RMul(c3, t3)))

\* a getPoint that takes t as it comes
ClampTNone(t) == t

\* t = Math.max(0, Math.min(1, t))
ClampT(t) == RMax(Zero, RMin(One, t))

\* segment = Math.min(Math.floor(t * n), n - 1), n = pts.length - 1
Segment(pts, t) ==
    LET n == Len(pts) - 1
    IN RMin(RFloor(RMul(ClampT(t), R(n))), R(n - 1))

\* localT = (t * n) - segment
LocalT(pts, t) == RSub(RMul(ClampT(t), R(Len(pts) - 1)), Segment(pts, t))

\* the (0-based) indices of p0, p1, p2, p3 in pts
PointIndices(pts, t) ==
    LET n == Len(pts) - 1
        segment == Segment(pts, t)
    IN << RMax(Zero, RSub(segment, One)),
          segment,
          RMin(R(n), RAdd(segment, One)),
          RMin(R(n), RAdd(segment, R(2))) >>

\* pts[i] is an element of the array (otherwise it reads as undefined)
InRange(pts, i) == IsFinite(i) /\ i.d = 1 /\ i.n >= 0 /\ i.n <= Len(pts) - 1

\* getPoint(t) reads a coordinate of undefined and raises a TypeError
getPointThrows(pts, t) ==
    \E k \in 1..4 : ~InRange(pts, PointIndices(pts, t)[k])

getPoint(pts, t) ==
    LET idx == PointIndices(pts, t)
    IN IF getPointThrows(pts, t) THEN NaN
       ELSE catmullRom(R(pts[idx[1].n + 1]), R(pts[idx[2].n + 1]),
                       R(pts[idx[3].n + 1]), R(pts[idx[4].n + 1]), LocalT(pts, t))

(***************************************************************************)
(* The arc-length table and the distance -> parameter search.              *)
(***************************************************************************)
\* prevPoint.distanceTo(point) for points on the x axis
distanceTo(a, b) == RAbs(RSub(a, b))

\* totalDist after the loop body has run for i = 1..k
RECURSIVE TotalDist(_, _, _)
TotalDist(pts, segments, k) ==
    IF k = 0 THEN Zero
    ELSE RAdd(TotalDist(pts, segments, k - 1),
              distanceTo(getPoint(pts, Norm(k - 1, segments)),
                         getPoint(pts, Norm(k, segments))))

\* a table whose parameters start one step late: (i + 1) / segments
buildArcLengthTableOffByOne(pts, segments) ==
    [j \in 1..(segments + 1) |->
        [parameter |-> Norm(j, segments),
         distance |-> TotalDist(pts, segments, j - 1)]]

\* the table, entry i of the array at index i + 1
buildArcLengthTable(pts, segments) ==
    [j \in 1..(segments + 1) |->
        [parameter |-> (IF j = 1 THEN Zero ELSE Norm(j - 1, segments)),
         distance |-> TotalDist(pts, segments, j - 1)]]

\* a loop with the two branches exchanged: high = mid below the target
RECURSIVE BinarySearchSwapped(_, _, _, _)
BinarySearchSwapped(table, targetDist, low, high) ==
    IF low < high - 1
    THEN LET mid == (low + high) \div 2
         IN IF RLt(table[mid + 1].distance, targetDist)
            THEN BinarySearchSwapped(table, targetDist, low, mid)
            ELSE BinarySearchSwapped(table, targetDist, mid, high)
    ELSE [low |-> low, high |-> high]

\* the while loop of getParameterForDistance, from (low, high) to its exit
RECURSIVE BinarySearch(_, _, _, _)
BinarySearch(table, targetDist, low, high) ==
    IF low < high - 1
    THEN LET mid == (low + high) \div 2
         IN IF RLt(table[mid + 1].distance, targetDist)
            THEN BinarySearch(table, targetDist, mid, high)
            ELSE BinarySearch(table, targetDist, low, mid)
    ELSE [low |-> low, high |-> high]

\* a search without the early return for targetDist >= totalLength
getParameterForDistanceNoUpperClamp(table, total, targetDist) ==
    IF RLe(targetDist, Zero) THEN Zero
    ELSE LET b == BinarySearch(table, targetDist, 0, Len(table) - 1)
             d0 == table[b.low + 1].distance
             d1 == table[b.high + 1].distance
             frac == RDiv(RSub(targetDist, d0), RSub(d1, d0))
         IN RAdd(table[b.low + 1].parameter,
                 RMul(frac, RSub(table[b.high + 1].parameter,
                                 table[b.low + 1].parameter)))

\* a search that adds frac itself, not frac of the parameter step
getParameterForDistanceNoScale(table, total, targetDist) ==
    IF RLe(targetDist, Zero) THEN Zero
    ELSE IF RGe(targetDist, total) THEN One
    ELSE LET b == BinarySearch(table, targetDist, 0, Len(table) - 1)
             d0 == table[b.low + 1].distance
             d1 == table[b.high + 1].distance
             frac == RDiv(RSub(targetDist, d0), RSub(d1, d0))
         IN RAdd(table[b.low + 1].parameter, frac)

\* a search that returns the lower sample's parameter, without interpolating
getParameterForDistanceNoInterpolation(table, total, targetDist) ==
    IF RLe(targetDist, Zero) THEN Zero
    ELSE IF RGe(targetDist, total) THEN One
    ELSE LET b == BinarySearch(table, targetDist, 0, Len(table) - 1)
         IN table[b.low + 1].parameter

getParameterForDistance(table, total, targetDist) ==
    IF RLe(targetDist, Zero) THEN Zero
    ELSE IF RGe(targetDist, total) THEN One
    ELSE LET b == BinarySearch(table, targetDist, 0, Len(table) - 1)
             d0 == table[b.low + 1].distance
             d1 == table[b.high + 1].distance
             frac == RDiv(RSub(targetDist, d0), RSub(d1, d0))
         IN RAdd(table[b.low + 1].parameter,
                 RMul(frac, RSub(table[b.high + 1].parameter,
                                 table[b.low + 1].parameter)))

(***************************************************************************)
(* The animator: its configuration, its playback state, and the calls the  *)
(* consumer makes on it.                                                   *)
(***************************************************************************)
VARIABLES
    points,             \* this.points (x coordinates)
    speed,              \* this.speed
    mode,               \* this.mode
    duration,           \* this.duration
    loop,               \* this.loop
    orientToDirection,  \* this.orientToDirection
    lookAheadDistance,  \* this.lookAheadDistance
    arcLengthSegments,  \* the arcLengthSegments option the constructor was given
    arcLengthTable,     \* this.arcLengthTable
    totalLength,        \* this.totalLength
    progress,           \* this.progress
    distanceTraveled,   \* this.distanceTraveled
    isPlaying,          \* this.isPlaying
    isComplete,         \* this.isComplete
    target,             \* this._target: attached or null, its position, the point it looks at
    lastOp,             \* the last call made on the animator
    lastDt,             \* the dt of the last update call
    returned,           \* what the last call returned
    pre,                \* the playback state before the last call
    query,              \* the last getPoint / getParameterForDistance query and its result
    currentHole,        \* app.js: the index of the loaded course
    ballMoving,         \* app.js: ballMoving
    isAiming,           \* app.js: isAiming
    dragged,            \* app.js: aimCurrent is more than 10 px from aimStart
    rollFrames,         \* app.js: frames until ballVelocity.length() < 0.01
    ballNearHole,       \* app.js: ball.position is within 0.25 of the hole
    nextHoleTimers,     \* app.js: pending setTimeout(..., 1500) callbacks of checkHole
    holes,              \* ScoreSystem: this.holes, each entry with the load it was scored on
    scoreCurrentHole,   \* ScoreSystem: this.currentHole
    currentStrokes,     \* ScoreSystem: this.currentStrokes
    loaded              \* the courses loadCourse has loaded, in order

config == << points, mode, duration, loop, orientToDirection, lookAheadDistance,
             arcLengthSegments, arcLengthTable, totalLength >>

playback == << progress, distanceTraveled, isPlaying, isComplete >>

\* the mini-golf page: app.js and its ScoreSystem
app == << currentHole, ballMoving, isAiming, dragged, rollFrames, ballNearHole,
          nextHoleTimers, holes, scoreCurrentHole, currentStrokes, loaded >>

vars == << points, speed, mode, duration, loop, orientToDirection, lookAheadDistance,
           arcLengthSegments, arcLengthTable, totalLength, progress, distanceTraveled,
           isPlaying, isComplete, target, lastOp, lastDt, returned, pre, query, app >>

\* the control-point sequences the animator is constructed with
Curves == { <<0, 1, 2, 3>>, <<0, 2>>, <<1, 1>> }

\* the arcLengthSegments option
SegmentCounts == {1, 3}

Modes == {"train", "time"}

\* the duration option, in seconds
Durations == {R(2)}

\* the lookAheadDistance option
LookAheads == {Norm(1, 4)}

\* the dt values update is called with: elapsed seconds, never negative
Dts == { Norm(k, 2) : k \in 0..MaxDt }

\* the values the consumer sets animator.speed to
Speeds == { R(k) : k \in 0..MaxSpeed }

\* what a call returns: the animator itself, undefined, a position, or a raised TypeError
RetThis == [kind |-> "this", value |-> Zero]
RetUndefined == [kind |-> "undefined", value |-> Zero]
RetPosition(p) == [kind |-> "position", value |-> p]
RetTypeError == [kind |-> "TypeError", value |-> Zero]

\* this._target = null; the entity, once attached, starts at the origin and
\* has been turned to no point (lookAtParameter is the argument of the getPoint
\* call that computed the point it looks at)
NoTarget == [attached |-> FALSE, position |-> Zero, oriented |-> FALSE,
             lookAt |-> Zero, lookAtParameter |-> Zero]

\* no query has been made
NoQuery == [fn |-> "none", arg |-> Zero, result |-> RetUndefined]

\* the snapshot kept in pre
Snapshot == [progress |-> progress, distanceTraveled |-> distanceTraveled,
             isPlaying |-> isPlaying, isComplete |-> isComplete]

\* the page after init(): new ScoreSystem(), loadCourse(0), nothing aimed
AppLoaded ==
    /\ currentHole = 0
    /\ ballMoving = FALSE
    /\ isAiming = FALSE
    /\ dragged = FALSE
    /\ rollFrames = 0
    /\ ballNearHole = FALSE
    /\ nextHoleTimers = 0
    /\ holes = << >>
    /\ scoreCurrentHole = 0
    /\ currentStrokes = 0
    /\ loaded = << 0 >>

Init ==
    /\ AppLoaded
    /\ points \in Curves
    /\ speed = One
    /\ mode \in Modes
    /\ duration \in Durations
    /\ loop \in BOOLEAN
    /\ orientToDirection \in BOOLEAN
    /\ lookAheadDistance \in LookAheads
    /\ arcLengthSegments \in SegmentCounts
    /\ arcLengthTable = buildArcLengthTable(points, arcLengthSegments)
    /\ totalLength = arcLengthTable[Len(arcLengthTable)].distance
    /\ progress = Zero
    /\ distanceTraveled = Zero
    /\ isPlaying = FALSE
    /\ isComplete = FALSE
    /\ target = NoTarget
    /\ lastOp = "constructor"
    /\ lastDt = Zero
    /\ returned = RetThis
    /\ pre = [progress |-> Zero, distanceTraveled |-> Zero, isPlaying |-> FALSE,
              isComplete |-> FALSE]
    /\ query = NoQuery

\* the constructor returned an animator (it raised nothing)
Constructed == ~(lastOp = "constructor" /\ returned.kind = "TypeError")

\* what every call records; a call needs an animator to be made on
Called(op, dt, ret) ==
    /\ Constructed
    /\ query' = query
    /\ lastOp' = op
    /\ lastDt' = dt
    /\ returned' = ret
    /\ pre' = Snapshot
    /\ UNCHANGED app

attachTo ==
    /\ target' = [target EXCEPT !.attached = TRUE]
    /\ Called("attachTo", Zero, RetThis)
    /\ UNCHANGED << config, speed, playback >>

\* a play that forgets to clear the complete flag
playKeepsComplete ==
    /\ isPlaying' = TRUE
    /\ progress' = Zero
    /\ distanceTraveled' = Zero
    /\ Called("play", Zero, RetThis)
    /\ UNCHANGED << config, speed, target, isComplete >>

play ==
    /\ isPlaying' = TRUE
    /\ isComplete' = FALSE
    /\ progress' = Zero
    /\ distanceTraveled' = Zero
    /\ Called("play", Zero, RetThis)
    /\ UNCHANGED << config, speed, target >>

\* a pause that also rewinds the traversal
pauseRewinds ==
    /\ isPlaying' = FALSE
    /\ progress' = Zero
    /\ distanceTraveled' = Zero
    /\ Called("pause", Zero, RetThis)
    /\ UNCHANGED << config, speed, target, isComplete >>

pause ==
    /\ isPlaying' = FALSE
    /\ Called("pause", Zero, RetThis)
    /\ UNCHANGED << config, speed, target, progress, distanceTraveled, isComplete >>

\* a resume that also clears the complete flag
resumeClearsComplete ==
    /\ isPlaying' = TRUE
    /\ isComplete' = FALSE
    /\ Called("resume", Zero, RetThis)
    /\ UNCHANGED << config, speed, target, progress, distanceTraveled >>

resume ==
    /\ isPlaying' = TRUE
    /\ Called("resume", Zero, RetThis)
    /\ UNCHANGED << config, speed, target, progress, distanceTraveled, isComplete >>

\* a reset that leaves the playing flag as it is
resetKeepsPlaying ==
    /\ progress' = Zero
    /\ distanceTraveled' = Zero
    /\ isComplete' = FALSE
    /\ Called("reset", Zero, RetThis)
    /\ UNCHANGED << config, speed, target, isPlaying >>

reset ==
    /\ progress' = Zero
    /\ distanceTraveled' = Zero
    /\ isPlaying' = FALSE
    /\ isComplete' = FALSE
    /\ Called("reset", Zero, RetThis)
    /\ UNCHANGED << config, speed, target >>

\* the consumer overrides animator.speed between ticks
setSpeed(s) ==
    /\ speed' = s
    /\ Called("setSpeed", Zero, RetThis)
    /\ UNCHANGED << config, playback, target >>

\* an early return that tests the complete flag only
updateSkipsIfComplete(playing, complete) == complete

\* update returns at once: if (!this.isPlaying || this.isComplete) return
updateSkips(playing, complete) == ~playing \/ complete

\* a bound test with a strict comparison: x > bound
reachedBoundStrict(x, bound) == RLt(bound, x)

\* the bound test of both branches: x >= bound
reachedBound(x, bound) == RGe(x, bound)

\* a train step that clamps and completes whether or not the animator loops
trainStepNoLoop(dist, spd, dt, total, lp) ==
    LET d == RAdd(dist, RMul(spd, dt))
    IN IF reachedBound(d, total)
       THEN [distanceTraveled |-> total, completes |-> TRUE]
       ELSE [distanceTraveled |-> d, completes |-> FALSE]

\* a train step that moves at speed 1 whatever this.speed is
trainStepUnitSpeed(dist, spd, dt, total, lp) ==
    LET d == RAdd(dist, dt)
    IN IF reachedBound(d, total)
       THEN IF lp THEN [distanceTraveled |-> RMod(d, total), completes |-> FALSE]
            ELSE [distanceTraveled |-> total, completes |-> TRUE]
       ELSE [distanceTraveled |-> d, completes |-> FALSE]

\* a train step that clamps at totalLength and never sets isComplete
trainStepClampOnly(dist, spd, dt, total, lp) ==
    LET d == RAdd(dist, RMul(spd, dt))
    IN IF reachedBound(d, total)
       THEN IF lp THEN [distanceTraveled |-> RMod(d, total), completes |-> FALSE]
            ELSE [distanceTraveled |-> total, completes |-> FALSE]
       ELSE [distanceTraveled |-> d, completes |-> FALSE]

\* the 'train' branch: the new distanceTraveled, and whether isComplete is set
trainStep(dist, spd, dt, total, lp) ==
    LET d == RAdd(dist, RMul(spd, dt))
    IN IF reachedBound(d, total)
       THEN IF lp THEN [distanceTraveled |-> RMod(d, total), completes |-> FALSE]
            ELSE [distanceTraveled |-> total, completes |-> TRUE]
       ELSE [distanceTraveled |-> d, completes |-> FALSE]

\* the other branch: the new progress, and whether isComplete is set
timeStep(prog, dt, dur, lp) ==
    LET p == RAdd(prog, RDiv(dt, dur))
    IN IF reachedBound(p, One)
       THEN IF lp THEN [progress |-> RMod(p, One), completes |-> FALSE]
            ELSE [progress |-> One, completes |-> TRUE]
       ELSE [progress |-> p, completes |-> FALSE]

\* an entity turned to getPoint(progress + lookAheadDistance), without the min
moveTargetNoMin(t, prog) ==
    IF t.attached
    THEN IF orientToDirection
         THEN [attached |-> TRUE,
               position |-> getPoint(points, prog),
               oriented |-> TRUE,
               lookAt |-> getPoint(points, RAdd(prog, lookAheadDistance)),
               lookAtParameter |-> RAdd(prog, lookAheadDistance)]
         ELSE [t EXCEPT !.position = getPoint(points, prog)]
    ELSE t

\* the entity after position.copy(position) and, if oriented, lookAt(ahead)
moveTarget(t, prog) ==
    IF t.attached
    THEN IF orientToDirection
         THEN [attached |-> TRUE,
               position |-> getPoint(points, prog),
               oriented |-> TRUE,
               lookAt |-> getPoint(points, RMin(One, RAdd(prog, lookAheadDistance))),
               lookAtParameter |-> RMin(One, RAdd(prog, lookAheadDistance))]
         ELSE [t EXCEPT !.position = getPoint(points, prog)]
    ELSE t

update(dt) ==
    /\ IF updateSkips(isPlaying, isComplete)
       THEN /\ Called("update", dt, RetUndefined)
            /\ UNCHANGED << playback, target >>
       ELSE LET train == trainStep(distanceTraveled, speed, dt, totalLength, loop)
                time == timeStep(progress, dt, duration, loop)
                newProgress == IF mode = "train"
                               THEN getParameterForDistance(arcLengthTable, totalLength,
                                                            train.distanceTraveled)
                               ELSE time.progress
            IN /\ distanceTraveled' = IF mode = "train" THEN train.distanceTraveled
                                      ELSE distanceTraveled
               /\ isComplete' = IF mode = "train" THEN (train.completes \/ isComplete)
                                ELSE (time.completes \/ isComplete)
               /\ progress' = newProgress
               /\ isPlaying' = isPlaying
               /\ IF getPointThrows(points, newProgress)
                  THEN /\ Called("update", dt, RetTypeError)
                       /\ UNCHANGED target
                  ELSE /\ Called("update", dt, RetPosition(getPoint(points, newProgress)))
                       /\ target' = moveTarget(target, newProgress)
    /\ UNCHANGED << config, speed >>

Next ==
    \/ attachTo
    \/ play
    \/ pause
    \/ resume
    \/ reset
    \/ \E s \in Speeds : setSpeed(s)
    \/ \E dt \in Dts : update(dt)

Spec == Init /\ [][Next]_vars

(***************************************************************************)
(* One traversal: play() once, then the animation loop calls update every  *)
(* frame with the time since the last one; the speed slider may move, but  *)
(* nothing pauses, resets or restarts the animator.                        *)
(***************************************************************************)
\* clock.getDelta() between two distinct frames
PositiveDts == Dts \ {Zero}

\* the speed slider off its zero stop
PositiveSpeeds == Speeds \ {Zero}

\* the one play() of the traversal
startTraversal == ~isPlaying /\ ~isComplete /\ play

\* requestAnimationFrame(animate): a frame
frame == \E dt \in PositiveDts : update(dt)

TraversalNext ==
    \/ startTraversal
    \/ attachTo
    \/ \E s \in PositiveSpeeds : setSpeed(s)
    \/ frame

\* what the call history shows of a frame: update was called with dt > 0
frameDelivered ==
    /\ lastOp' = "update"
    /\ lastDt' \in PositiveDts
    /\ pre' = Snapshot

\* the browser keeps delivering animation frames: of the steps of
\* TraversalNext, frameDelivered holds of the frame steps alone
TraversalSpec ==
    Init /\ [][TraversalNext]_vars /\ WF_<<lastOp, lastDt, pre>>(frameDelivered)

(***************************************************************************)
(* The mode option: the same calls on animators built with 'train', with   *)
(* 'time', and with a string that is neither.                              *)
(***************************************************************************)
AnyModes == Modes \cup {"linear"}

ModeInit ==
    /\ AppLoaded
    /\ points \in Curves
    /\ speed = One
    /\ mode \in AnyModes
    /\ duration \in Durations
    /\ loop \in BOOLEAN
    /\ orientToDirection = TRUE
    /\ lookAheadDistance \in LookAheads
    /\ arcLengthSegments = 3
    /\ arcLengthTable = buildArcLengthTable(points, arcLengthSegments)
    /\ totalLength = arcLengthTable[Len(arcLengthTable)].distance
    /\ progress = Zero
    /\ distanceTraveled = Zero
    /\ isPlaying = FALSE
    /\ isComplete = FALSE
    /\ target = NoTarget
    /\ lastOp = "constructor"
    /\ lastDt = Zero
    /\ returned = RetThis
    /\ pre = Snapshot
    /\ query = NoQuery

ModeSpec == ModeInit /\ [][Next]_vars

(***************************************************************************)
(* The mini-golf page (app.js): pointer events, animation frames and the   *)
(* delayed next-hole timers, run one handler at a time by the browser's    *)
(* event loop. The ball's velocity is the number of frames it keeps        *)
(* rolling, and its position is whether it lies within 0.25 of the hole.   *)
(***************************************************************************)
\* COURSES[i].par, course i at index i + 1
CoursePars == << 3, 4, 3 >>

\* the page builds no CurveAnimator: the animator's variables keep these values
AnimatorUnused ==
    /\ points = << 0, 2 >>
    /\ speed = One
    /\ mode = "train"
    /\ duration = R(3)
    /\ loop = FALSE
    /\ orientToDirection = TRUE
    /\ lookAheadDistance = Norm(1, 100)
    /\ arcLengthSegments = 1
    /\ arcLengthTable = buildArcLengthTable(points, arcLengthSegments)
    /\ totalLength = arcLengthTable[Len(arcLengthTable)].distance
    /\ progress = Zero
    /\ distanceTraveled = Zero
    /\ isPlaying = FALSE
    /\ isComplete = FALSE
    /\ target = NoTarget
    /\ lastOp = "constructor"
    /\ lastDt = Zero
    /\ returned = RetThis
    /\ pre = Snapshot
    /\ query = NoQuery

animator == << config, speed, playback, target, lastOp, lastDt, returned, pre, query >>

GolfInit == AppLoaded /\ AnimatorUnused

\* loadCourse(index): the ball back on the tee and at rest, strokes cleared
loadCourse(index) ==
    /\ currentHole' = index % Len(CoursePars)
    /\ ballNearHole' = FALSE
    /\ rollFrames' = 0
    /\ ballMoving' = FALSE
    /\ currentStrokes' = 0
    /\ loaded' = Append(loaded, index % Len(CoursePars))

onPointerDown ==
    /\ ~ballMoving
    /\ isAiming' = TRUE
    /\ dragged' = FALSE
    /\ UNCHANGED << currentHole, ballMoving, rollFrames, ballNearHole, nextHoleTimers,
                    holes, scoreCurrentHole, currentStrokes, loaded, animator >>

\* far: the pointer is now more than 10 px from where it went down
onPointerMove(far) ==
    /\ isAiming
    /\ dragged' = far
    /\ UNCHANGED << currentHole, ballMoving, isAiming, rollFrames, ballNearHole,
                    nextHoleTimers, holes, scoreCurrentHole, currentStrokes, loaded,
                    animator >>

\* roll: how long the power of the shot keeps the ball above 0.01
onPointerUp(roll) ==
    /\ isAiming
    /\ IF dragged
       THEN /\ currentStrokes < MaxStrokes
            /\ Len(holes) < MaxEntries
            /\ rollFrames' = roll
            /\ ballMoving' = TRUE
            /\ currentStrokes' = currentStrokes + 1
       ELSE UNCHANGED << rollFrames, ballMoving, currentStrokes >>
    /\ isAiming' = FALSE
    /\ UNCHANGED << currentHole, dragged, ballNearHole, nextHoleTimers, holes,
                    scoreCurrentHole, loaded, animator >>

\* score.scoreHole(par): the entry pushed (diff and term follow from par and
\* score), with the load it is scored on
scoreHole(par) ==
    /\ holes' = Append(holes, [hole |-> scoreCurrentHole + 1, par |-> par,
                               score |-> currentStrokes, load |-> Len(loaded)])
    /\ scoreCurrentHole' = scoreCurrentHole + 1
    /\ currentStrokes' = 0

\* checkHole(), called with the ball at rest
checkHole ==
    IF ballNearHole
    THEN /\ scoreHole(CoursePars[currentHole + 1])
         /\ nextHoleTimers' = nextHoleTimers + 1
         /\ ballNearHole' = TRUE
    ELSE UNCHANGED << holes, scoreCurrentHole, currentStrokes, nextHoleTimers,
                      ballNearHole >>

\* animate -> updatePhysics(dt); near: where this frame's move leaves the ball
updatePhysics(near) ==
    /\ ballMoving
    /\ IF rollFrames = 0
       THEN /\ ballMoving' = FALSE
            /\ checkHole
            /\ UNCHANGED rollFrames
       ELSE /\ rollFrames' = rollFrames - 1
            /\ ballNearHole' = near
            /\ UNCHANGED << ballMoving, holes, scoreCurrentHole, currentStrokes,
                            nextHoleTimers >>
    /\ UNCHANGED << currentHole, isAiming, dragged, loaded, animator >>

\* the callback checkHole left with setTimeout(..., 1500)
nextHoleTimer ==
    /\ nextHoleTimers > 0
    /\ nextHoleTimers' = nextHoleTimers - 1
    /\ IF currentHole < Len(CoursePars) - 1
       THEN loadCourse(currentHole + 1)
       ELSE UNCHANGED << currentHole, ballNearHole, rollFrames, ballMoving,
                         currentStrokes, loaded >>
    /\ UNCHANGED << isAiming, dragged, holes, scoreCurrentHole, animator >>

\* the reset button: the ball back on the tee and at rest
resetButton ==
    /\ rollFrames' = 0
    /\ ballMoving' = FALSE
    /\ ballNearHole' = FALSE
    /\ UNCHANGED << currentHole, isAiming, dragged, nextHoleTimers, holes,
                    scoreCurrentHole, currentStrokes, loaded, animator >>

GolfNext ==
    \/ onPointerDown
    \/ \E far \in BOOLEAN : onPointerMove(far)
    \/ \E roll \in 1..MaxRoll : onPointerUp(roll)
    \/ \E near \in BOOLEAN : updatePhysics(near)
    \/ nextHoleTimer
    \/ resetButton

GolfSpec == GolfInit /\ [][GolfNext]_vars

(***************************************************************************)
(* The pure queries: an animator built from any of a wider set of control  *)
(* point sequences (too short ones, repeated points, a turn back) and any  *)
(* segment count, on which getPoint and getParameterForDistance are        *)
(* called.                                                                 *)
(***************************************************************************)
QueryCurves ==
    { << >>, <<1>>, <<0, 2>>, <<1, 1>>, <<0, 3, 1>>, <<0, 1, 2, 3>>,
      <<0, 2, 2, 2>>, <<0, 0, 0, 2>>, <<0, 1, 1, 1, 1, 2>> }

QuerySegmentCounts == 1..MaxSegments

\* the arguments getPoint is queried with: below 0, inside [0, 1], above 1
QueryTs == { Norm(k, 4) : k \in -2..MaxQueryT }

\* the arguments getParameterForDistance is queried with: below 0 and upward
QueryDistances == { Norm(k, 2) : k \in -1..MaxQueryD }

\* a distance -> parameter query returns a number
RetNumber(x) == [kind |-> "number", value |-> x]

\* _buildArcLengthTable calls getPoint(i / segments), i = 0..segments; the
\* constructor raises what getPoint raises
constructorThrows(pts, segments) ==
    \E i \in 0..segments : getPointThrows(pts, Norm(i, segments))

\* new CurveAnimator(points, {arcLengthSegments}), the other options defaulted
QInit ==
    /\ AppLoaded
    /\ points \in QueryCurves
    /\ arcLengthSegments \in QuerySegmentCounts
    /\ speed = One
    /\ mode = "train"
    /\ duration = R(3)
    /\ loop = FALSE
    /\ orientToDirection = TRUE
    /\ lookAheadDistance = Norm(1, 100)
    /\ IF constructorThrows(points, arcLengthSegments)
       THEN /\ arcLengthTable = << >>
            /\ totalLength = Zero
            /\ returned = RetTypeError
       ELSE /\ arcLengthTable = buildArcLengthTable(points, arcLengthSegments)
            /\ totalLength = arcLengthTable[Len(arcLengthTable)].distance
            /\ returned = RetThis
    /\ progress = Zero
    /\ distanceTraveled = Zero
    /\ isPlaying = FALSE
    /\ isComplete = FALSE
    /\ target = NoTarget
    /\ lastOp = "constructor"
    /\ lastDt = Zero
    /\ pre = [progress |-> Zero, distanceTraveled |-> Zero, isPlaying |-> FALSE,
              isComplete |-> FALSE]
    /\ query = NoQuery

\* animator.getPoint(t)
queryPoint(t) ==
    /\ Constructed
    /\ query' = [fn |-> "getPoint", arg |-> t,
                 result |-> IF getPointThrows(points, t) THEN RetTypeError
                            ELSE RetPosition(getPoint(points, t))]
    /\ UNCHANGED << config, speed, playback, target, lastOp, lastDt, returned, pre, app >>

\* animator.getParameterForDistance(d)
queryDistance(d) ==
    /\ Constructed
    /\ query' = [fn |-> "getParameterForDistance", arg |-> d,
                 result |-> RetNumber(getParameterForDistance(arcLengthTable,
                                                              totalLength, d))]
    /\ UNCHANGED << config, speed, playback, target, lastOp, lastDt, returned, pre, app >>

QNext ==
    \/ \E t \in QueryTs : queryPoint(t)
    \/ \E d \in QueryDistances \cup { arcLengthTable[i].distance : i \in DOMAIN arcLengthTable } :
          queryDistance(d)

QuerySpec == QInit /\ [][QNext]_vars

(***************************************************************************)
(* Properties of the playback state machine.                               *)
(***************************************************************************)
\* the states of the traversal, where the fields decide them
Playing == isPlaying /\ ~isComplete
Complete == isComplete
\* the call before was pause() on a playing animator: Paused
SurelyPaused == lastOp = "pause" /\ pre.isPlaying /\ ~pre.isComplete /\ ~isPlaying
\* nothing but the constructor or reset() has been called: Idle
SurelyIdle == lastOp \in {"constructor", "reset"}

\* the position of the last control point
EndOfCurve == R(points[Len(points)])

\* C1: update(dt) called while not playing, or while complete, returns no
\* position and leaves progress, distanceTraveled, isPlaying, isComplete and
\* the attached entity unchanged, for every dt.
C1_UpdateNoOpUnlessPlaying ==
    [][ (lastOp' = "update" /\ (~isPlaying \/ isComplete))
            => (returned' = RetUndefined /\ UNCHANGED << playback, target >>) ]_vars

\* update(1/2 or more) was called on a paused animator with an entity attached
\* in mid-traversal, and applied no tick
C1_Witness ==
    /\ lastOp = "update" /\ RLt(Zero, lastDt)
    /\ ~pre.isPlaying /\ ~pre.isComplete /\ RLt(Zero, pre.progress)
    /\ target.attached
    /\ returned = RetUndefined /\ progress = pre.progress

\* C2: after play(), from any state, the animator is playing with
\* progress = 0, distanceTraveled = 0 and isComplete = false.
C2_PlayRestarts ==
    lastOp = "play"
        => (isPlaying /\ ~isComplete /\ progress = Zero /\ distanceTraveled = Zero)

\* play() was called on a complete animator that stood at the end of the curve
C2_Witness ==
    /\ lastOp = "play" /\ pre.isComplete /\ pre.progress = One
    /\ isPlaying /\ progress = Zero

\* C3: resume() moves a paused animator to playing, keeping progress and
\* distanceTraveled, and changes nothing of the playback state when the
\* animator is idle, playing or complete.
C3_ResumeOnlyFromPaused ==
    [][ lastOp' = "resume" =>
            IF SurelyPaused
            THEN isPlaying' /\ UNCHANGED << progress, distanceTraveled, isComplete >>
            ELSE (SurelyIdle \/ Playing \/ Complete) => UNCHANGED playback ]_vars

\* C4 as stated: pause() moves a playing animator to paused, keeping progress
\* and distanceTraveled, and changes nothing of isPlaying, isComplete,
\* progress and distanceTraveled when the animator is idle, paused or complete.
C4_PauseOnlyFromPlaying ==
    [][ lastOp' = "pause" =>
            IF Playing
            THEN ~isPlaying' /\ UNCHANGED << progress, distanceTraveled, isComplete >>
            ELSE UNCHANGED playback ]_vars

\* C4 as amended: pause() clears isPlaying and leaves progress,
\* distanceTraveled, isComplete and the entity unchanged in every state; so it
\* moves a playing animator to paused, changes nothing of an idle or paused
\* animator, and leaves a complete animator complete with isPlaying cleared.
C4_PauseClearsPlayingOnly ==
    [][ lastOp' = "pause" =>
            /\ ~isPlaying'
            /\ UNCHANGED << progress, distanceTraveled, isComplete, target >>
            /\ (~isPlaying => UNCHANGED playback) ]_vars

\* pause() was called on a complete animator whose isPlaying was still set
C4_Witness ==
    /\ lastOp = "pause" /\ pre.isComplete /\ pre.isPlaying
    /\ isComplete /\ ~isPlaying /\ progress = pre.progress

\* C5: after reset(), from any state, progress = 0, distanceTraveled = 0,
\* isPlaying = false and isComplete = false, and an update(dt) right after it
\* applies no tick.
C5_ResetToIdle ==
    [][ /\ lastOp' = "reset"
            => (progress' = Zero /\ distanceTraveled' = Zero /\ ~isPlaying' /\ ~isComplete')
        /\ (lastOp = "reset" /\ lastOp' = "update")
            => (returned' = RetUndefined /\ UNCHANGED << playback, target >>) ]_vars

\* reset() was called on a playing animator in mid-traversal
C5_Witness ==
    /\ lastOp = "reset" /\ pre.isPlaying /\ RLt(Zero, pre.progress)
    /\ ~isPlaying /\ progress = Zero

(***************************************************************************)
(* Properties of the tick: completion, looping and the ranges.             *)
(***************************************************************************)
\* the last call was an update that applied a tick
TickApplied == lastOp = "update" /\ pre.isPlaying /\ ~pre.isComplete

\* what the tick added to: distanceTraveled + speed * dt, progress + dt / duration
\* (update leaves speed as it is, so speed is the speed of that tick)
TickDistance == RAdd(pre.distanceTraveled, RMul(speed, lastDt))
TickProgress == RAdd(pre.progress, RDiv(lastDt, duration))

\* w is x modulo m: 0 <= w < m, and x - w is a whole multiple of m
IsModulo(w, x, m) ==
    /\ RLe(Zero, w) /\ RLt(w, m)
    /\ LET q == RDiv(RSub(x, w), m) IN IsFinite(q) /\ q.d = 1

\* C6: without loop, an applied update sets isComplete exactly when the bound
\* is reached, the comparison being inclusive: in distance mode iff
\* distanceTraveled + speed*dt >= totalLength, and distanceTraveled is then
\* totalLength; in time mode iff progress + dt/duration >= 1, and progress is
\* then 1.
C6_CompleteIffBoundReached ==
    (TickApplied /\ ~loop) =>
        IF mode = "train"
        THEN /\ isComplete <=> RGe(TickDistance, totalLength)
             /\ isComplete => distanceTraveled = totalLength
        ELSE /\ isComplete <=> RGe(TickProgress, One)
             /\ isComplete => progress = One

\* a tick arrived exactly at the bound, from mid-traversal, and completed
C6_Witness ==
    /\ TickApplied /\ ~loop /\ isComplete
    /\ RLt(Zero, lastDt)
    /\ IF mode = "train"
       THEN RLt(Zero, pre.distanceTraveled) /\ TickDistance = totalLength
       ELSE RLt(Zero, pre.progress) /\ TickProgress = One

\* C7: without loop, once isComplete is set it stays set and progress,
\* distanceTraveled and the entity's position stay at the end of the curve
\* under update, pause and resume; only play() and reset() clear it.
C7_CompleteIsTerminal ==
    [][ (~loop /\ isComplete) =>
            /\ getPoint(points, progress) = EndOfCurve
            /\ (mode = "train" => distanceTraveled = totalLength)
            /\ (mode # "train" => progress = One)
            /\ lastOp' \in {"update", "pause", "resume"} =>
                  /\ isComplete'
                  /\ UNCHANGED << progress, distanceTraveled, target >>
                  /\ (lastOp' = "update" => returned' = RetUndefined)
            /\ ~isComplete' => lastOp' \in {"play", "reset"} ]_vars

\* a complete animator was paused, resumed and updated: it is still complete,
\* with the attached entity at the end of the curve
C7_Witness ==
    /\ ~loop /\ isComplete /\ pre.isComplete /\ pre.isPlaying
    /\ lastOp = "update" /\ RLt(Zero, lastDt)
    /\ target.attached /\ target.position = EndOfCurve
    /\ EndOfCurve # R(points[1])

\* C8: with loop, isComplete is false in every reachable state.
C8_LoopNeverCompletes == loop => ~isComplete

\* a looping tick reached the bound and wrapped
C8_Witness ==
    /\ loop /\ TickApplied /\ ~isComplete
    /\ IF mode = "train" THEN RGe(TickDistance, totalLength)
       ELSE RGe(TickProgress, One)

\* C9: with loop, a distance-mode tick with distanceTraveled + speed*dt >=
\* totalLength leaves distanceTraveled = (distanceTraveled + speed*dt) modulo
\* totalLength, not above totalLength; a time-mode tick with progress +
\* dt/duration >= 1 leaves progress = (progress + dt/duration) modulo 1, not
\* above 1.
C9_WrapIsExactModulo ==
    (TickApplied /\ loop) =>
        IF mode = "train"
        THEN RGe(TickDistance, totalLength) =>
                /\ IsModulo(distanceTraveled, TickDistance, totalLength)
                /\ RLe(distanceTraveled, totalLength)
        ELSE RGe(TickProgress, One) =>
                /\ IsModulo(progress, TickProgress, One)
                /\ RLe(progress, One)

\* C9 on the curves of positive length: there the wrap is the exact modulo
C9_WrapIsExactModuloOnPositiveLength == RLt(Zero, totalLength) => C9_WrapIsExactModulo

\* C10: in every reachable state progress is in [0, 1] and distanceTraveled is
\* in [0, totalLength].
C10_RangesHold ==
    /\ RLe(Zero, progress) /\ RLe(progress, One)
    /\ RLe(Zero, distanceTraveled) /\ RLe(distanceTraveled, totalLength)

\* C10 on the curves of positive length: there the ranges hold
C10_RangesHoldOnPositiveLength == RLt(Zero, totalLength) => C10_RangesHold

(***************************************************************************)
(* Properties of the arc-length table, the search and the spline.          *)
(***************************************************************************)
\* the last query was getParameterForDistance(query.arg)
AskedDistance == query.fn = "getParameterForDistance"
\* the last query was getPoint(query.arg)
AskedPoint == query.fn = "getPoint"

\* the search on this animator's table
ParameterFor(d) == getParameterForDistance(arcLengthTable, totalLength, d)

\* |a - b| <= bound
Within(a, b, bound) == RLe(RAbs(RSub(a, b)), bound)

\* C11: on a curve with totalLength = 0, getParameterForDistance(d) is 0 for
\* every d, and a looping distance-mode update leaves distanceTraveled a
\* number and progress = 0.
C11_ZeroLengthIsGuarded ==
    totalLength = Zero =>
        /\ \A d \in QueryDistances : ParameterFor(d) = Zero
        /\ (TickApplied /\ loop /\ mode = "train")
              => (IsFinite(distanceTraveled) /\ progress = Zero)

\* C12: getParameterForDistance(d) returns a number in [0, 1] for every d, 0
\* for d <= 0, and 1 for d >= totalLength when totalLength > 0.
C12_ParameterInUnitInterval ==
    AskedDistance =>
        /\ query.result.kind = "number"
        /\ RLe(Zero, query.result.value) /\ RLe(query.result.value, One)
        /\ RLe(query.arg, Zero) => query.result.value = Zero
        /\ (RLt(Zero, totalLength) /\ RGe(query.arg, totalLength))
              => query.result.value = One

\* a distance strictly inside a table with several samples mapped strictly
\* inside (0, 1)
C12_Witness ==
    /\ AskedDistance /\ arcLengthSegments > 2
    /\ RLt(Zero, query.arg) /\ RLt(query.arg, totalLength)
    /\ RLt(Zero, query.result.value) /\ RLt(query.result.value, One)

\* getParameterForDistance is non-decreasing around the queried distance
MonotoneAtQuery ==
    \A d \in QueryDistances \cup { arcLengthTable[i].distance : i \in DOMAIN arcLengthTable } :
        /\ RLe(d, query.arg) => RLe(ParameterFor(d), query.result.value)
        /\ RLe(query.arg, d) => RLe(query.result.value, ParameterFor(d))

\* C13 as stated: for every table, getParameterForDistance is non-decreasing
\* over all distances, getParameterForDistance(0) = 0 and
\* getParameterForDistance(totalLength) = 1.
C13_MonotoneWithBothEnds ==
    AskedDistance =>
        /\ MonotoneAtQuery
        /\ ParameterFor(Zero) = Zero
        /\ ParameterFor(totalLength) = One

\* C13 as amended: for every table, getParameterForDistance is non-decreasing
\* over all distances and getParameterForDistance(0) = 0;
\* getParameterForDistance(totalLength) = 1 when totalLength > 0, and 0 when
\* totalLength = 0.
C13_MonotoneWithEnds ==
    AskedDistance =>
        /\ MonotoneAtQuery
        /\ ParameterFor(Zero) = Zero
        /\ ParameterFor(totalLength) = IF RLt(Zero, totalLength) THEN One ELSE Zero

\* a distance strictly inside a table that has a run of equal distances was
\* queried, between a smaller and a larger queried distance
C13_Witness ==
    /\ AskedDistance
    /\ \E i \in 1..(Len(arcLengthTable) - 1) :
          /\ arcLengthTable[i].distance = arcLengthTable[i + 1].distance
          /\ RLt(Zero, arcLengthTable[i].distance)
          /\ RLt(arcLengthTable[i].distance, totalLength)
    /\ RLt(Zero, query.arg) /\ RLt(query.arg, totalLength)
    /\ \E d1, d2 \in QueryDistances :
          /\ RLt(d1, query.arg) /\ RLt(query.arg, d2)
          /\ RLt(ParameterFor(d1), query.result.value)
          /\ RLt(query.result.value, ParameterFor(d2))

\* the table has arcLengthSegments + 1 samples on the uniform grid i/S, with
\* non-decreasing distances, from (0, 0) to (1, totalLength)
TableIsWellFormed ==
    /\ Len(arcLengthTable) = arcLengthSegments + 1
    /\ \A i \in 1..Len(arcLengthTable) :
          /\ RMul(arcLengthTable[i].parameter, R(arcLengthSegments)) = R(i - 1)
          /\ i > 1 => /\ RLt(arcLengthTable[i - 1].parameter, arcLengthTable[i].parameter)
                      /\ RLe(arcLengthTable[i - 1].distance, arcLengthTable[i].distance)
    /\ arcLengthTable[1] = [parameter |-> Zero, distance |-> Zero]
    /\ arcLengthTable[Len(arcLengthTable)] = [parameter |-> One, distance |-> totalLength]

\* C14: the table built with S segments has S + 1 samples with parameters
\* i/S, strictly increasing, non-decreasing distances, first sample (0, 0) and
\* last sample (1, totalLength), and no step changes the table or totalLength.
C14_TableWellFormedAndFixed ==
    [][ /\ TableIsWellFormed
        /\ TableIsWellFormed'
        /\ arcLengthTable' = arcLengthTable
        /\ totalLength' = totalLength ]_vars

\* a traversal over a table of four samples with unequal steps has completed
C14_Witness ==
    /\ lastOp = "update" /\ isComplete
    /\ arcLengthSegments = 3
    /\ RSub(arcLengthTable[2].distance, arcLengthTable[1].distance)
         # RSub(arcLengthTable[3].distance, arcLengthTable[2].distance)
    /\ TableIsWellFormed

\* C15: getPoint(0) is the first control point and getPoint(1) the last, for
\* every sequence of at least 2 control points.
C15_EndpointsAreControlPoints ==
    AskedPoint =>
        /\ query.arg = Zero => query.result = RetPosition(R(points[1]))
        /\ query.arg = One => query.result = RetPosition(R(points[Len(points)]))

\* getPoint(1) was queried on three control points with distinct ends
C15_Witness ==
    /\ AskedPoint /\ query.arg = One
    /\ Len(points) = 3 /\ points[1] # points[3]
    /\ query.result = RetPosition(R(points[3]))

\* C16: getPoint(t) for t < 0 equals getPoint(0) and for t > 1 equals
\* getPoint(1); the segment index is in [0, N - 2] and the four control point
\* indices are in [0, N - 1], so no read falls outside the sequence.
C16_ParameterAndIndicesClamped ==
    AskedPoint =>
        LET seg == Segment(points, query.arg)
            idx == PointIndices(points, query.arg)
        IN /\ query.result.kind = "position"
           /\ RLt(query.arg, Zero) => query.result = RetPosition(getPoint(points, Zero))
           /\ RLt(One, query.arg) => query.result = RetPosition(getPoint(points, One))
           /\ seg.d = 1 /\ 0 <= seg.n /\ seg.n <= Len(points) - 2
           /\ \A k \in DOMAIN idx :
                 idx[k].d = 1 /\ 0 <= idx[k].n /\ idx[k].n <= Len(points) - 1

\* getPoint(3/2) was queried on six control points and gave the last one
C16_Witness ==
    /\ AskedPoint /\ query.arg = Norm(3, 2)
    /\ Len(points) = 6
    /\ query.result = RetPosition(R(points[6]))

\* the constructor's report of fewer than 2 control points
RetInvalidConfiguration == [kind |-> "InvalidConfiguration", value |-> Zero]

\* C17: constructing an animator with fewer than 2 control points fails with
\* an invalid-configuration error, and no such animator is ever used.
C17_TooFewPointsIsInvalidConfiguration ==
    Len(points) < 2 =>
        /\ lastOp = "constructor"
        /\ returned = RetInvalidConfiguration
        /\ query = NoQuery

\* C18: a distance-mode update(dt) that does not reach totalLength leaves
\* distanceTraveled = previous distanceTraveled + speed * dt, with the speed
\* in force at that call.
C18_DistanceAdvancesBySpeedTimesDt ==
    (TickApplied /\ mode = "train" /\ RLt(Zero, totalLength)
       /\ RLt(RAdd(pre.distanceTraveled, RMul(speed, lastDt)), totalLength))
    => /\ distanceTraveled = RAdd(pre.distanceTraveled, RMul(speed, lastDt))
       /\ progress = ParameterFor(distanceTraveled)
       /\ ~isComplete

\* speed 1, totalLength 3: update(3/2) from 0 leaves distanceTraveled = 3/2
C18_Witness ==
    /\ TickApplied /\ mode = "train"
    /\ totalLength = R(3) /\ speed = One
    /\ pre.distanceTraveled = Zero /\ lastDt = Norm(3, 2)
    /\ distanceTraveled = Norm(3, 2)

\* speed changed to 2 between calls: update(1/2) from 1/2 leaves 3/2
C18_WitnessLiveSpeed ==
    /\ TickApplied /\ mode = "train"
    /\ totalLength = R(3) /\ speed = R(2)
    /\ pre.distanceTraveled = Norm(1, 2) /\ lastDt = Norm(1, 2)
    /\ distanceTraveled = Norm(3, 2)

\* the table samples whose distance is the queried one
SamplesAtQuery == { i \in DOMAIN arcLengthTable : arcLengthTable[i].distance = query.arg }

\* C19 as stated: for every table sample parameter p,
\* getParameterForDistance(distance at p) is within 1/S of p.
C19_RoundTripWithinOneStep ==
    AskedDistance =>
        \A i \in SamplesAtQuery :
            Within(query.result.value, arcLengthTable[i].parameter,
                   Norm(1, arcLengthSegments))

\* C19 as amended: for every table sample parameter p,
\* getParameterForDistance(distance at p) is p when no other sample has the
\* distance at p, and is within (r - 1)/S of p when r samples have it.
C19_RoundTripWithinRun ==
    AskedDistance =>
        \A i \in SamplesAtQuery :
            IF Cardinality(SamplesAtQuery) = 1
            THEN query.result.value = arcLengthTable[i].parameter
            ELSE Within(query.result.value, arcLengthTable[i].parameter,
                        Norm(Cardinality(SamplesAtQuery) - 1, arcLengthSegments))

\* the distance of an interior sample that no other sample shares was queried
C19_Witness ==
    /\ AskedDistance /\ arcLengthSegments > 2
    /\ Cardinality(SamplesAtQuery) = 1
    /\ RLt(Zero, query.arg) /\ RLt(query.arg, totalLength)

\* the distance shared by a run of four samples was queried, and the round
\* trip gave the parameter of the first of them
C19_WitnessRun ==
    /\ AskedDistance
    /\ Cardinality(SamplesAtQuery) = 4
    /\ RLt(Zero, query.arg) /\ RLt(query.arg, totalLength)
    /\ \A i \in SamplesAtQuery :
          RLe(query.result.value, arcLengthTable[i].parameter)

\* progress + lookAheadDistance, capped at 1
LookAheadParameter ==
    IF RLe(RAdd(progress, lookAheadDistance), One)
    THEN RAdd(progress, lookAheadDistance)
    ELSE One

\* C20: an update that moves an attached entity with orientToDirection turns
\* it to getPoint(min(1, progress + lookAheadDistance)), a parameter never
\* above 1; without orientToDirection the entity is never turned.
C20_LookAheadCappedAtOne ==
    /\ (TickApplied /\ returned.kind = "position" /\ target.attached /\ orientToDirection)
          => /\ target.oriented
             /\ target.position = getPoint(points, progress)
             /\ target.lookAtParameter = LookAheadParameter
             /\ target.lookAt = getPoint(points, LookAheadParameter)
    /\ target.oriented => (orientToDirection /\ RLe(target.lookAtParameter, One))

\* an entity was moved to the end of the curve and turned to getPoint(1)
C20_Witness ==
    /\ TickApplied /\ returned.kind = "position"
    /\ target.attached /\ target.oriented
    /\ RLt(One, RAdd(progress, lookAheadDistance))
    /\ target.lookAtParameter = One

(***************************************************************************)
(* The position an update returns, and the two counters.                   *)
(***************************************************************************)
\* C21: every applied update returns getPoint(progress) for the progress the
\* call wrote; an attached entity is moved to that position by the same call,
\* and without an entity the call is applied and returns the position all the
\* same.
C21_UpdateReturnsPosition ==
    TickApplied =>
        /\ returned = RetPosition(getPoint(points, progress))
        /\ IsFinite(returned.value)
        /\ target.attached => target.position = returned.value

\* C21 on curves with totalLength > 0
C21_UpdateReturnsPositionOnPositiveLength ==
    RLt(Zero, totalLength) => C21_UpdateReturnsPosition

\* C22 as stated: once play() was called on a non-looping animator and
\* update keeps being called with dt > 0 (speed > 0, duration > 0, no pause,
\* reset or play), the animator eventually has isComplete and progress = 1.
C22_TraversalEndsAtOne ==
    (isPlaying /\ ~loop) ~> (isComplete /\ progress = One)

\* C22 as amended: ... the animator eventually has isComplete, with
\* progress = 1 in time mode and in distance mode when totalLength > 0, and
\* progress = 0 in distance mode on a curve with totalLength = 0.
C22_TraversalEnds ==
    (isPlaying /\ ~loop)
       ~> (isComplete /\ progress = IF mode = "train" /\ totalLength = Zero
                                     THEN Zero ELSE One)

\* a non-looping distance-mode traversal of a curve of length 3 completed at
\* progress 1 after more than one frame
C22_Witness ==
    /\ lastOp = "update" /\ ~loop /\ mode = "train"
    /\ totalLength = R(3)
    /\ RLt(Zero, pre.distanceTraveled) /\ ~pre.isComplete
    /\ isComplete /\ progress = One

(***************************************************************************)
(* The bracketing samples of the search.                                   *)
(***************************************************************************)
\* the last query was getParameterForDistance(d) with 0 < d < totalLength
AskedInside ==
    AskedDistance /\ RLt(Zero, query.arg) /\ RLt(query.arg, totalLength)

\* the samples the loop ends on for the queried distance (0-based indices)
Bracket == BinarySearch(arcLengthTable, query.arg, 0, Len(arcLengthTable) - 1)
LowSample == arcLengthTable[Bracket.low + 1]
HighSample == arcLengthTable[Bracket.high + 1]

\* C23: for 0 < d < totalLength the loop ends with high = low + 1 inside the
\* table and distance[low] <= d <= distance[high], and the result lies on the
\* line through the two samples:
\* (result - parameter[low]) * (distance[high] - distance[low])
\*    = (d - distance[low]) * (parameter[high] - parameter[low]).
C23_SearchBracketsAndInterpolates ==
    AskedInside =>
        /\ Len(arcLengthTable) >= 2
        /\ 0 <= Bracket.low /\ Bracket.high = Bracket.low + 1
        /\ Bracket.high <= Len(arcLengthTable) - 1
        /\ RLe(LowSample.distance, query.arg) /\ RLe(query.arg, HighSample.distance)
        /\ RMul(RSub(query.result.value, LowSample.parameter),
                RSub(HighSample.distance, LowSample.distance))
             = RMul(RSub(query.arg, LowSample.distance),
                    RSub(HighSample.parameter, LowSample.parameter))
        /\ RLe(LowSample.parameter, query.result.value)
        /\ RLe(query.result.value, HighSample.parameter)

\* a distance strictly between two interior samples was converted to a
\* parameter strictly between theirs
C23_Witness ==
    /\ AskedInside
    /\ 0 < Bracket.low /\ Bracket.high < Len(arcLengthTable) - 1
    /\ RLt(LowSample.distance, query.arg) /\ RLt(query.arg, HighSample.distance)
    /\ RLt(LowSample.parameter, query.result.value)
    /\ RLt(query.result.value, HighSample.parameter)

\* C25: for every table and every d with 0 < d < totalLength the samples the
\* search ends on satisfy distance[low] < d <= distance[high], so
\* distance[high] - distance[low] > 0 and the interpolation divides by a
\* positive number.
C25_NoDivisionByZero ==
    AskedInside =>
        /\ RLt(LowSample.distance, query.arg)
        /\ RLe(query.arg, HighSample.distance)
        /\ RLt(Zero, RSub(HighSample.distance, LowSample.distance))
        /\ query.result.kind = "number" /\ IsFinite(query.result.value)

\* the distance shared by a run of samples inside the table was queried: the
\* search ended on the sample before the run and the first of the run
C25_Witness ==
    /\ AskedInside
    /\ Cardinality(SamplesAtQuery) >= 3
    /\ Bracket.high + 1 \in SamplesAtQuery
    /\ Bracket.low + 1 \notin SamplesAtQuery

\* a distance below a run that ends the table was queried
C25_WitnessBelowRun ==
    /\ AskedInside
    /\ \E i \in 2..(Len(arcLengthTable) - 1) :
          /\ arcLengthTable[i].distance = arcLengthTable[i + 1].distance
          /\ RLt(query.arg, arcLengthTable[i].distance)
          /\ RLt(arcLengthTable[i - 1].distance, query.arg)

(***************************************************************************)
(* The mode option and the two counters.                                   *)
(***************************************************************************)
\* a === b on numbers: NaN equals nothing
SameNumber(a, b) == ~IsNaN(a) /\ ~IsNaN(b) /\ a = b

\* what a time-mode tick leaves in progress: progress + dt/duration, wrapped
\* modulo 1 with loop and held at 1 without, once that reaches 1
TimeAdvanced ==
    IF RLt(TickProgress, One) THEN progress = TickProgress
    ELSE IF loop THEN IsModulo(progress, TickProgress, One)
    ELSE progress = One

\* C24: with mode 'train', progress = getParameterForDistance(distanceTraveled)
\* in every reachable state; with any other mode, an applied update advances
\* progress by dt/duration and distanceTraveled is 0 in every reachable state.
C24_CountersCoupled ==
    /\ mode = "train" => SameNumber(progress, ParameterFor(distanceTraveled))
    /\ mode # "train" =>
          /\ distanceTraveled = Zero
          /\ TickApplied => TimeAdvanced

\* C24 on curves with totalLength > 0
C24_CountersCoupledOnPositiveLength ==
    RLt(Zero, totalLength) => C24_CountersCoupled

(***************************************************************************)
(* The mini-golf scorecard.                                                *)
(***************************************************************************)
\* the scorecard entries scored on the k-th load
EntriesOfLoad(k) == { i \in DOMAIN holes : holes[i].load = k }

\* C26: each loaded course is scored at most once, and courses are loaded in
\* order without skipping: each load is the course after the one before, and
\* a course is left only after it was scored, once.
C26_EachCourseScoredOnceInOrder ==
    /\ \A k \in DOMAIN loaded : Cardinality(EntriesOfLoad(k)) <= 1
    /\ \A k \in 2..Len(loaded) :
          /\ loaded[k] = loaded[k - 1] + 1
          /\ Cardinality(EntriesOfLoad(k - 1)) = 1

=============================================================================
